---- MODULE Spec2Model ----
(***************************************************************************)
(* The lending and fines engine of the library management system: the      *)
(* relational store (BOOK, BORROWER, BOOK_LOANS, FINES) and the operations *)
(* of the two entry points that work on it, the CLI engine functions       *)
(* (src/loans.py, src/borrowers.py, src/fines.py) and the HTTP handlers    *)
(* (src/backend/routers/*.py).                                             *)
(*                                                                         *)
(* Dates are day numbers.  Money is kept in cents (Fine_amt is             *)
(* DECIMAL(10,2)).  A card id is kept as its digit sequence: six digits    *)
(* stand for "ID" + digits, fewer for the bare number.                     *)
(***************************************************************************)
EXTENDS Integers, Sequences, FiniteSets, TLC

VARIABLES
    borrower,     \* BORROWER rows
    book_loans,   \* BOOK_LOANS rows, book_loans[i] is the row with Loan_id = i
    fines,        \* FINES rows, a function from Loan_id
    clock,        \* date.today()
    last,         \* the answer of the operation that completed last
    req           \* the request each concurrent handler is working on

vars == <<borrower, book_loans, fines, clock, last, req>>

(***************************************************************************)
(* Bounds of the model                                                     *)
(***************************************************************************)
MaxLoans == 3     \* BOOK_LOANS rows ever inserted, operations one at a time
RaceLoans == 4    \* BOOK_LOANS rows ever inserted, concurrent handlers
MaxDay   == 15    \* last day the clock reaches
DayStep  == 15    \* days between two observations of the clock
FineMaxDay  == 24 \* last day the clock reaches when fines are followed
FineDayStep == 8  \* days between two observations then
FineRaceLoans == 2 \* loan ids sent to check-in while fine handlers race

(***************************************************************************)
(* Program constants                                                       *)
(***************************************************************************)
LoanPeriod == 14  \* timedelta(days=14)
MaxActive  == 3   \* active_count >= 3
FineRate   == 25  \* late_days * 0.25, in cents
CardWidth  == 6   \* ID{next_num:06d}
NULL       == -1  \* Date_in DATE (nullable)

\* BOOK rows: the catalog is loaded once and never changes
BOOK == {"b1", "b2", "b3", "b4"}
\* ISBNs a caller may send: the catalog and one unknown ISBN
Isbns == BOOK \cup {"bx"}
\* the (ssn, <<name, address, phone>>) a caller may send to create: complete
\* ones, and ones with each of the four fields empty in turn
CreateInputs ==
    { <<"s1", <<"n", "a", "p">> >>, <<"s2", <<"n", "a", "p">> >>,
      <<"",   <<"n", "a", "p">> >>, <<"s1", <<"", "a", "p">> >>,
      <<"s2", <<"", "a", "p">> >>,  <<"s1", <<"n", "", "p">> >>,
      <<"s2", <<"n", "a", "">> >> }
\* the concurrent request handlers
Procs == {"p1", "p2"}

(***************************************************************************)
(* Card ids                                                                *)
(***************************************************************************)
RECURSIVE ToDigits(_)
\* str(n): the decimal digits of n, most significant first
ToDigits(n) == IF n < 10 THEN <<n>> ELSE Append(ToDigits(n \div 10), n % 10)

RECURSIVE Zeros(_)
Zeros(k) == IF k <= 0 THEN <<>> ELSE <<0>> \o Zeros(k - 1)

\* f"ID{n:06d}": zero-padded to CardWidth digits, longer when n needs more
FormatCard(n) == LET d == ToDigits(n) IN Zeros(CardWidth - Len(d)) \o d

RECURSIVE ParseDigits(_)
\* int(digits)
ParseDigits(d) ==
    IF d = <<>> THEN 0 ELSE 10 * ParseDigits(SubSeq(d, 1, Len(d) - 1)) + d[Len(d)]

\* Card_id REGEXP '^ID[0-9]{6}$'
MatchesCardFormat(c) == Len(c) = CardWidth

Max(S) == CHOOSE x \in S : \A y \in S : y <= x

\* card ids a caller may send: the first two allocated and one never allocated
Cards == {FormatCard(1), FormatCard(2), FormatCard(3)}

\* the (isbn, card) pairs a caller may send to checkout when operations run one
\* at a time: the first card with every ISBN, the other cards with two of them
CheckoutInputs ==
    ({"b1", "b2", "b3", "bx"} \X {FormatCard(1)})
        \cup ({"b1", "bx"} \X {FormatCard(2), FormatCard(3)})

\* No answer is waiting to be returned and no handler is in mid-request
Idle == [op |-> "idle"]
None == [op |-> "none"]
Quiet == last = None /\ \A p \in Procs : req[p] = Idle

(***************************************************************************)
(* Queries on the store                                                    *)
(***************************************************************************)
LoanIds == DOMAIN book_loans

IsOpen(id) == book_loans[id].Date_in = NULL

\* SELECT Card_id FROM BORROWER WHERE Card_id = %s
BorrowerExists(card) == \E b \in borrower : b.Card_id = card

\* SELECT Isbn FROM BOOK WHERE Isbn = %s
BookExists(isbn) == isbn \in BOOK

\* SELECT Card_id FROM BORROWER WHERE Ssn = %s
SsnExists(ssn) == \E b \in borrower : b.Ssn = ssn

\* a variant that counts the unpaid fines of the loans still out only
UnpaidFinesCount_OpenOnly(card) ==
    Cardinality({id \in DOMAIN fines : book_loans[id].Card_id = card /\ ~fines[id].Paid
                                        /\ book_loans[id].Date_in = NULL})

\* SELECT COUNT(*) FROM BOOK_LOANS bl JOIN FINES f ... WHERE bl.Card_id = %s AND f.Paid = 0
UnpaidFinesCount(card) ==
    Cardinality({id \in DOMAIN fines : book_loans[id].Card_id = card /\ ~fines[id].Paid})

\* SELECT COUNT(*) FROM BOOK_LOANS WHERE Card_id = %s AND Date_in IS NULL
ActiveCount(card) ==
    Cardinality({id \in LoanIds : book_loans[id].Card_id = card /\ IsOpen(id)})

\* a variant without AND Date_in IS NULL
BookOut_AnyLoan(isbn) == \E id \in LoanIds : book_loans[id].Isbn = isbn

\* SELECT Loan_id FROM BOOK_LOANS WHERE Isbn = %s AND Date_in IS NULL
BookOut(isbn) == \E id \in LoanIds : book_loans[id].Isbn = isbn /\ IsOpen(id)

(***************************************************************************)
(* checkout                                                                *)
(***************************************************************************)
\* a variant that lets a fourth loan through
TooManyActive_OffByOne(cnt) == cnt > MaxActive

\* if active_count >= 3
TooManyActive(cnt) == cnt >= MaxActive

\* if cursor.fetchone()['cnt'] > 0
HasUnpaid(cnt) == cnt > 0

\* a variant that counts the day of the checkout as the first of the 14
DueDate_Inclusive(today) == today + LoanPeriod - 1

\* due_date = today + timedelta(days=14)
DueDate(today) == today + LoanPeriod

\* One precondition check of checkout: the failure it raises, or "pass"
CheckAt(check, isbn, card) ==
    CASE check = "borrower" ->
           IF ~BorrowerExists(card) THEN "BorrowerNotFound" ELSE "pass"
      [] check = "fines" ->
           IF HasUnpaid(UnpaidFinesCount(card)) THEN "UnpaidFinesError" ELSE "pass"
      [] check = "count" ->
           IF TooManyActive(ActiveCount(card)) THEN "MaxActiveLoansError" ELSE "pass"
      [] check = "avail" ->
           IF BookOut(isbn) THEN "BookUnavailableError" ELSE "pass"
      [] check = "book" ->
           IF ~BookExists(isbn) THEN "BookNotFound" ELSE "pass"

\* The checks the HTTP handler makes, in its order
ChecksHTTP == <<"borrower", "fines", "count", "avail", "book">>

\* The checks the CLI engine function makes, in its order
ChecksCLI == <<"fines", "count", "avail">>

CheckoutChecks(entry) == IF entry = "http" THEN ChecksHTTP ELSE ChecksCLI

\* The failure of the first failing check from position `from` on, or "pass"
GateFrom(entry, from, isbn, card) ==
    LET seq == CheckoutChecks(entry)
        failing == {i \in from..Len(seq) : CheckAt(seq[i], isbn, card) # "pass"}
    IN  IF failing = {} THEN "pass"
        ELSE CheckAt(seq[CHOOSE i \in failing : \A j \in failing : i <= j], isbn, card)

\* a variant of the table without the two foreign keys
InsertLoanResult_NoForeignKey(isbn, card) == "ok"

\* fk_book_loans_book, fk_book_loans_borrower: the INSERT is refused by the
\* store when a referenced row is missing
InsertLoanResult(isbn, card) ==
    IF BookExists(isbn) /\ BorrowerExists(card) THEN "ok" ELSE "StorageError"

\* INSERT INTO BOOK_LOANS (Isbn, Card_id, Date_out, Due_date, Date_in)
NewLoan(isbn, card, today) ==
    [Isbn |-> isbn, Card_id |-> card, Date_out |-> today,
     Due_date |-> DueDate(today), Date_in |-> NULL]

\* What a checkout that runs alone answers
CheckoutResult(entry, isbn, card) ==
    LET g == GateFrom(entry, 1, isbn, card)
    IN  IF g = "pass" THEN InsertLoanResult(isbn, card) ELSE g

\* a variant that inserts before it counts and does not roll back
Checkout_WriteFirst(entry, isbn, card) ==
    LET res == CheckoutResult(entry, isbn, card)
    IN  /\ Quiet
        /\ res = "ok" => Len(book_loans) < MaxLoans
        /\ book_loans' = IF res \in {"ok", "MaxActiveLoansError"}
                         THEN Append(book_loans, NewLoan(isbn, card, clock))
                         ELSE book_loans
        /\ last' = [op |-> "checkout", entry |-> entry, arg |-> <<isbn, card>>,
                    res |-> res,
                    out |-> IF res = "ok" THEN Len(book_loans) + 1 ELSE 0]
        /\ UNCHANGED <<borrower, fines, clock, req>>

\* checkout_book, executed as one unit
Checkout(entry, isbn, card) ==
    LET res == CheckoutResult(entry, isbn, card)
    IN  /\ Quiet
        /\ res = "ok" => Len(book_loans) < MaxLoans
        /\ book_loans' = IF res = "ok"
                         THEN Append(book_loans, NewLoan(isbn, card, clock))
                         ELSE book_loans
        /\ last' = [op |-> "checkout", entry |-> entry, arg |-> <<isbn, card>>,
                    res |-> res,
                    out |-> IF res = "ok" THEN Len(book_loans) + 1 ELSE 0]
        /\ UNCHANGED <<borrower, fines, clock, req>>

(***************************************************************************)
(* check-in                                                                *)
(***************************************************************************)
\* a variant whose UPDATE has no AND Date_in IS NULL
CloseLoans_Unguarded(ids, today) ==
    [id \in LoanIds |->
        IF id \in ids THEN [book_loans[id] EXCEPT !.Date_in = today]
        ELSE book_loans[id]]

\* a variant that moves the due date to the day of the check-in
CloseLoans_MoveDue(ids, today) ==
    [id \in LoanIds |->
        IF id \in ids /\ IsOpen(id)
        THEN [book_loans[id] EXCEPT !.Date_in = today, !.Due_date = today]
        ELSE book_loans[id]]

\* UPDATE BOOK_LOANS SET Date_in = %s WHERE Loan_id IN (...) AND Date_in IS NULL
CloseLoans(ids, today) ==
    [id \in LoanIds |->
        IF id \in ids /\ IsOpen(id)
        THEN [book_loans[id] EXCEPT !.Date_in = today]
        ELSE book_loans[id]]

\* a variant whose SELECT has no AND Date_in IS NULL
OpenLoanFound_AnyLoan(id) == id \in LoanIds

\* SELECT Loan_id FROM BOOK_LOANS WHERE Loan_id = %s AND Date_in IS NULL
OpenLoanFound(id) == id \in LoanIds /\ IsOpen(id)

\* a variant that settles the fine of the loan in the same transaction
Checkin_SettlesFine(id) ==
    LET res == IF OpenLoanFound(id) THEN "ok" ELSE "LoanNotFoundOrClosed"
    IN  /\ Quiet
        /\ book_loans' = IF res = "ok" THEN CloseLoans({id}, clock) ELSE book_loans
        /\ fines' = [i \in DOMAIN fines |->
                      IF i = id THEN [fines[i] EXCEPT !.Paid = TRUE] ELSE fines[i]]
        /\ last' = [op |-> "checkin", entry |-> "http", arg |-> id, res |-> res,
                    out |-> 0]
        /\ UNCHANGED <<borrower, clock, req>>

\* checkin_book (HTTP, one loan), executed as one unit
Checkin(id) ==
    LET res == IF OpenLoanFound(id) THEN "ok" ELSE "LoanNotFoundOrClosed"
    IN  /\ Quiet
        /\ book_loans' = IF res = "ok" THEN CloseLoans({id}, clock) ELSE book_loans
        /\ last' = [op |-> "checkin", entry |-> "http", arg |-> id, res |-> res,
                    out |-> 0]
        /\ UNCHANGED <<borrower, fines, clock, req>>

\* a variant that rejects the whole list when one of its loans is not OPEN
CheckinBatch_Strict(ids) ==
    LET res == IF \A id \in ids : OpenLoanFound(id) THEN "ok" ELSE "LoanNotFoundOrClosed"
    IN  /\ Quiet
        /\ book_loans' = IF res = "ok" /\ ids # {} THEN CloseLoans(ids, clock)
                         ELSE book_loans
        /\ last' = [op |-> "checkinBatch", entry |-> "cli", arg |-> ids, res |-> res,
                    out |-> 0]
        /\ UNCHANGED <<borrower, fines, clock, req>>

\* checkin_loans (CLI, a list of loans), executed as one unit
CheckinBatch(ids) ==
    /\ Quiet
    /\ book_loans' = IF ids = {} THEN book_loans ELSE CloseLoans(ids, clock)
    /\ last' = [op |-> "checkinBatch", entry |-> "cli", arg |-> ids, res |-> "ok",
                out |-> 0]
    /\ UNCHANGED <<borrower, fines, clock, req>>

(***************************************************************************)
(* fines                                                                   *)
(***************************************************************************)
\* CASE WHEN Date_in IS NOT NULL AND Date_in > Due_date THEN DATEDIFF(Date_in, Due_date)
\*      WHEN Date_in IS NULL AND today > Due_date THEN DATEDIFF(today, Due_date)
\*      ELSE 0 END
LateDays(l, today) ==
    IF l.Date_in # NULL /\ l.Date_in > l.Due_date THEN l.Date_in - l.Due_date
    ELSE IF l.Date_in = NULL /\ today > l.Due_date THEN today - l.Due_date
    ELSE 0

\* fine_amt = late_days * 0.25
FineAmt(late) == late * FineRate

\* a variant without HAVING late_days > 0
OverdueLoans_All(today) == LoanIds

\* HAVING late_days > 0
OverdueLoans(today) == {id \in LoanIds : LateDays(book_loans[id], today) > 0}

\* a variant that adds the new amount to the unpaid fine
SweepFine_Accumulate(id, today) ==
    LET amt == FineAmt(LateDays(book_loans[id], today))
    IN  IF id \notin DOMAIN fines THEN [Fine_amt |-> amt, Paid |-> FALSE]
        ELSE IF ~fines[id].Paid THEN [fines[id] EXCEPT !.Fine_amt = @ + amt]
        ELSE fines[id]

\* a variant that replaces a paid fine by a new unpaid one
SweepFine_Reopen(id, today) ==
    [Fine_amt |-> FineAmt(LateDays(book_loans[id], today)), Paid |-> FALSE]

\* a variant that brings the amount of a paid fine up to date
SweepFine_Reprice(id, today) ==
    LET amt == FineAmt(LateDays(book_loans[id], today))
    IN  IF id \notin DOMAIN fines THEN [Fine_amt |-> amt, Paid |-> FALSE]
        ELSE [fines[id] EXCEPT !.Fine_amt = amt]

\* a variant that inserts the missing fines and updates none
SweepFine_InsertOnly(id, today) ==
    LET amt == FineAmt(LateDays(book_loans[id], today))
    IN  IF id \notin DOMAIN fines THEN [Fine_amt |-> amt, Paid |-> FALSE]
        ELSE fines[id]

\* The FINES row of an overdue loan after the sweep has handled it
SweepFine(id, today) ==
    LET amt == FineAmt(LateDays(book_loans[id], today))
    IN  IF id \notin DOMAIN fines THEN [Fine_amt |-> amt, Paid |-> FALSE]
        ELSE IF ~fines[id].Paid THEN [fines[id] EXCEPT !.Fine_amt = amt]
        ELSE fines[id]

\* the loop of update_fines over the overdue loans, then commit
SweepFines(today) ==
    [id \in DOMAIN fines \cup OverdueLoans(today) |->
        IF id \in OverdueLoans(today) THEN SweepFine(id, today) ELSE fines[id]]

\* update_fines, executed as one unit
Recompute(entry) ==
    /\ Quiet
    /\ fines' = SweepFines(clock)
    /\ last' = [op |-> "recompute", entry |-> entry, arg |-> clock, res |-> "ok",
                out |-> 0]
    /\ UNCHANGED <<borrower, book_loans, clock, req>>

\* SELECT COUNT(*) ... WHERE bl.Card_id = %s AND f.Paid = 0 AND bl.Date_in IS NULL
UnpaidOpenCount(card) ==
    Cardinality({id \in DOMAIN fines :
        book_loans[id].Card_id = card /\ ~fines[id].Paid /\ IsOpen(id)})

\* a variant whose UPDATE leaves out bl.Card_id = %s
PayFines_Everyone(card) ==
    [id \in DOMAIN fines |->
        IF ~fines[id].Paid /\ ~IsOpen(id)
        THEN [fines[id] EXCEPT !.Paid = TRUE]
        ELSE fines[id]]

\* a variant whose UPDATE leaves out bl.Date_in IS NOT NULL
PayFines_AnyLoan(card) ==
    [id \in DOMAIN fines |->
        IF book_loans[id].Card_id = card /\ ~fines[id].Paid
        THEN [fines[id] EXCEPT !.Paid = TRUE]
        ELSE fines[id]]

\* UPDATE FINES f JOIN BOOK_LOANS bl ... SET f.Paid = 1
\* WHERE bl.Card_id = %s AND f.Paid = 0 AND bl.Date_in IS NOT NULL
PayFines(card) ==
    [id \in DOMAIN fines |->
        IF book_loans[id].Card_id = card /\ ~fines[id].Paid /\ ~IsOpen(id)
        THEN [fines[id] EXCEPT !.Paid = TRUE]
        ELSE fines[id]]

\* What pay_all_fines (CLI) and pay_fines (HTTP) answer when they run alone
PayAllResult(entry, card) ==
    IF entry = "http" /\ ~BorrowerExists(card) THEN "BorrowerNotFound"
    ELSE IF UnpaidOpenCount(card) > 0 THEN "BooksStillOutError"
    ELSE "ok"

\* a variant that pays the Fines of the closed loans before it refuses
PayAll_PayThenRefuse(entry, card) ==
    LET res == PayAllResult(entry, card)
    IN  /\ Quiet
        /\ fines' = PayFines(card)
        /\ last' = [op |-> "payAll", entry |-> entry, arg |-> card, res |-> res,
                    out |-> 0]
        /\ UNCHANGED <<borrower, book_loans, clock, req>>

\* pay_all_fines / pay_fines, executed as one unit
PayAll(entry, card) ==
    LET res == PayAllResult(entry, card)
    IN  /\ Quiet
        /\ fines' = IF res = "ok" THEN PayFines(card) ELSE fines
        /\ last' = [op |-> "payAll", entry |-> entry, arg |-> card, res |-> res,
                    out |-> 0]
        /\ UNCHANGED <<borrower, book_loans, clock, req>>

(***************************************************************************)
(* create borrower                                                         *)
(***************************************************************************)
\* a variant that does not look at the phone
FieldsValid_NoPhone(ssn, tail) == ssn # "" /\ tail[1] # "" /\ tail[2] # ""

\* if not ssn or not name or not address or not phone
FieldsValid(ssn, tail) == ssn # "" /\ tail[1] # "" /\ tail[2] # "" /\ tail[3] # ""

\* generate_next_card_id (HTTP): the largest suffix among the ids of the fixed
\* format, plus one; ID000001 when there is none
NextCardHTTP ==
    LET nums == {ParseDigits(b.Card_id) : b \in {x \in borrower : MatchesCardFormat(x.Card_id)}}
    IN  IF nums = {} THEN FormatCard(1) ELSE FormatCard(Max(nums) + 1)

\* SELECT MAX(Card_id) (CLI): NULL on an empty table, a str otherwise, Card_id
\* being VARCHAR(20).  (max_id or 0) + 1 is 1 on an empty table, stored as '1',
\* and raises TypeError (str + int) on any other.
NextCardFails(entry) == entry = "cli" /\ borrower # {}

NextCardCLI == ToDigits(0 + 1)

NextCard(entry) == IF entry = "http" THEN NextCardHTTP ELSE NextCardCLI

\* a variant whose Ssn column is not UNIQUE
InsertBorrowerAllowed_NoUnique(card, ssn) == ~BorrowerExists(card)

\* Card_id PRIMARY KEY, Ssn NOT NULL UNIQUE: the INSERT is refused (errno 1062)
\* when either key is already stored
InsertBorrowerAllowed(card, ssn) == ~BorrowerExists(card) /\ ~SsnExists(ssn)

\* What the handler answers when the store refuses the INSERT: the HTTP handler
\* maps errno 1062 to its 409 duplicate answer, the CLI re-raises the error
InsertRefused(entry) == IF entry = "http" THEN "DuplicateIdentityError" ELSE "StorageError"

NewBorrower(card, ssn, tail) ==
    [Card_id |-> card, Ssn |-> ssn, Bname |-> tail[1], Address |-> tail[2],
     Phone |-> tail[3]]

\* a variant that leaves the duplicate to the INSERT
CreateResult_NoLookup(entry, ssn, tail) ==
    IF ~FieldsValid(ssn, tail) THEN "ValidationError"
    ELSE IF NextCardFails(entry) THEN "TypeError"
    ELSE IF ~InsertBorrowerAllowed(NextCard(entry), ssn) THEN InsertRefused(entry)
    ELSE "ok"

\* What a create that runs alone answers
CreateResult(entry, ssn, tail) ==
    IF ~FieldsValid(ssn, tail) THEN "ValidationError"
    ELSE IF SsnExists(ssn) THEN "DuplicateIdentityError"
    ELSE IF NextCardFails(entry) THEN "TypeError"
    ELSE IF ~InsertBorrowerAllowed(NextCard(entry), ssn) THEN InsertRefused(entry)
    ELSE "ok"

\* create_borrower, executed as one unit
Create(entry, ssn, tail) ==
    LET res  == CreateResult(entry, ssn, tail)
        card == NextCard(entry)
    IN  /\ Quiet
        /\ borrower' = IF res = "ok"
                       THEN borrower \cup {NewBorrower(card, ssn, tail)}
                       ELSE borrower
        /\ last' = [op |-> "create", entry |-> entry, arg |-> <<ssn, tail>>,
                    res |-> res, out |-> IF res = "ok" THEN card ELSE <<>>,
                    at |-> "alone"]
        /\ UNCHANGED <<book_loans, fines, clock, req>>

(***************************************************************************)
(* The clock                                                               *)
(***************************************************************************)
Tick ==
    /\ Quiet
    /\ clock + DayStep <= MaxDay
    /\ clock' = clock + DayStep
    /\ UNCHANGED <<borrower, book_loans, fines, last, req>>

\* The caller takes the answer of the operation that has completed
Return ==
    /\ last # None
    /\ last' = None
    /\ UNCHANGED <<borrower, book_loans, fines, clock, req>>

(***************************************************************************)
(* Lending and fines, the operations executed one at a time                *)
(***************************************************************************)
Entries == {"cli", "http"}

\* import_borrowers: the BORROWER rows loaded from borrower.csv at start-up
SeedBorrowers ==
    {NewBorrower(FormatCard(1), "s1", <<"n", "a", "p">>),
     NewBorrower(FormatCard(2), "s2", <<"n", "a", "p">>)}

\* the lists of loan ids a caller may send to the batch check-in
BatchInputs == {ids \in SUBSET (1..MaxLoans) : Cardinality(ids) <= 2}

Init ==
    /\ borrower = SeedBorrowers
    /\ book_loans = <<>>
    /\ fines = <<>>
    /\ clock = 0
    /\ last = None
    /\ req = [p \in Procs |-> Idle]

Next ==
    \/ \E e \in Entries, a \in CheckoutInputs : Checkout(e, a[1], a[2])
    \/ \E id \in 1..MaxLoans : Checkin(id)
    \/ \E ids \in BatchInputs : CheckinBatch(ids)
    \/ \E e \in Entries : Recompute(e)
    \/ \E e \in Entries, card \in Cards : PayAll(e, card)
    \/ Tick
    \/ Return

Spec == Init /\ [][Next]_vars

(***************************************************************************)
(* Concurrent request handlers.                                            *)
(*                                                                         *)
(* Every handler opens its own connection and runs its statements in one   *)
(* transaction of the store's default isolation (InnoDB REPEATABLE READ):  *)
(* its plain SELECTs all read the snapshot taken by the first of them, so  *)
(* they are one step; its INSERT is checked by the store against the rows  *)
(* committed at that moment and is followed at once by the commit, so      *)
(* INSERT and commit are a second step.  Other handlers run in between.    *)
(***************************************************************************)

\* checkout_book up to the INSERT: the precondition reads
StartCheckout(p, entry, isbn, card) ==
    LET g == GateFrom(entry, 1, isbn, card)
    IN  /\ req[p] = Idle
        /\ last = None
        /\ IF g = "pass"
           THEN /\ req' = [req EXCEPT ![p] = [op |-> "checkout", entry |-> entry,
                                              arg |-> <<isbn, card>>]]
                /\ last' = last
           ELSE /\ req' = req
                /\ last' = [op |-> "checkout", entry |-> entry,
                            arg |-> <<isbn, card>>, res |-> g, out |-> 0]
        /\ UNCHANGED <<borrower, book_loans, fines, clock>>

\* checkout_book from the INSERT on: cursor.execute(insert_sql), conn.commit()
CheckoutInsert(p) ==
    /\ req[p].op = "checkout"
    /\ last = None
    /\ LET isbn == req[p].arg[1]
           card == req[p].arg[2]
           res  == InsertLoanResult(isbn, card)
       IN  /\ res = "ok" => Len(book_loans) < RaceLoans
           /\ book_loans' = IF res = "ok"
                            THEN Append(book_loans, NewLoan(isbn, card, clock))
                            ELSE book_loans
           /\ last' = [op |-> "checkout", entry |-> req[p].entry, arg |-> req[p].arg,
                       res |-> res,
                       out |-> IF res = "ok" THEN Len(book_loans) + 1 ELSE 0]
    /\ req' = [req EXCEPT ![p] = Idle]
    /\ UNCHANGED <<borrower, fines, clock>>

\* the (isbn, card) pairs the concurrent checkout handlers are sent
RaceCheckoutInputs == (BOOK \X {FormatCard(1)}) \cup ({"b1"} \X {FormatCard(2)})

NextCheckoutRace ==
    \/ \E p \in Procs, e \in Entries, a \in RaceCheckoutInputs :
          StartCheckout(p, e, a[1], a[2])
    \/ \E p \in Procs : CheckoutInsert(p)
    \/ Return

SpecCheckoutRace == Init /\ [][NextCheckoutRace]_vars

\* create_borrower up to the INSERT: validation, the SSN lookup, the card id
StartCreate(p, entry, ssn, tail) ==
    LET res == IF ~FieldsValid(ssn, tail) THEN "ValidationError"
               ELSE IF SsnExists(ssn) THEN "DuplicateIdentityError"
               ELSE IF NextCardFails(entry) THEN "TypeError"
               ELSE "pass"
    IN  /\ req[p] = Idle
        /\ last = None
        /\ IF res = "pass"
           THEN /\ req' = [req EXCEPT ![p] = [op |-> "create", entry |-> entry,
                                              arg |-> <<ssn, tail>>,
                                              card |-> NextCard(entry)]]
                /\ last' = last
           ELSE /\ req' = req
                /\ last' = [op |-> "create", entry |-> entry, arg |-> <<ssn, tail>>,
                            res |-> res, out |-> <<>>, at |-> "check"]
        /\ UNCHANGED <<borrower, book_loans, fines, clock>>

\* create_borrower from the INSERT on: cursor.execute(insert_sql), conn.commit()
CreateInsert(p) ==
    /\ req[p].op = "create"
    /\ last = None
    /\ LET ssn  == req[p].arg[1]
           tail == req[p].arg[2]
           card == req[p].card
           ok   == InsertBorrowerAllowed(card, ssn)
       IN  /\ borrower' = IF ok THEN borrower \cup {NewBorrower(card, ssn, tail)}
                          ELSE borrower
           /\ last' = [op |-> "create", entry |-> req[p].entry, arg |-> req[p].arg,
                       res |-> IF ok THEN "ok" ELSE InsertRefused(req[p].entry),
                       out |-> IF ok THEN card ELSE <<>>, at |-> "insert"]
    /\ req' = [req EXCEPT ![p] = Idle]
    /\ UNCHANGED <<book_loans, fines, clock>>

\* the BORROWER table is empty when borrower.csv is missing at start-up
InitCreate ==
    /\ borrower \in {{}, {NewBorrower(FormatCard(1), "s1", <<"n", "a", "p">>)}}
    /\ book_loans = <<>>
    /\ fines = <<>>
    /\ clock = 0
    /\ last = None
    /\ req = [p \in Procs |-> Idle]

NextCreate ==
    \/ \E e \in Entries, a \in CreateInputs : Create(e, a[1], a[2])
    \/ \E p \in Procs, e \in Entries, a \in CreateInputs : StartCreate(p, e, a[1], a[2])
    \/ \E p \in Procs : CreateInsert(p)
    \/ Return

SpecCreate == InitCreate /\ [][NextCreate]_vars

\* checkin_book (HTTP) up to the UPDATE: the SELECT of the OPEN loan
StartCheckin(p, id) ==
    /\ req[p] = Idle
    /\ last = None
    /\ IF OpenLoanFound(id)
       THEN /\ req' = [req EXCEPT ![p] = [op |-> "checkin", entry |-> "http",
                                          arg |-> id]]
            /\ last' = last
       ELSE /\ req' = req
            /\ last' = [op |-> "checkin", entry |-> "http", arg |-> id,
                        res |-> "LoanNotFoundOrClosed", out |-> 0]
    /\ UNCHANGED <<borrower, book_loans, fines, clock>>

\* checkin_book from today = date.today() on: the UPDATE, which the store
\* applies to the rows as committed at that moment, and the commit.  The
\* handler answers success without looking at the number of rows updated.
CheckinUpdate(p) ==
    /\ req[p].op = "checkin"
    /\ last = None
    /\ book_loans' = CloseLoans({req[p].arg}, clock)
    /\ last' = [op |-> "checkin", entry |-> "http", arg |-> req[p].arg,
                res |-> "ok", out |-> 0]
    /\ req' = [req EXCEPT ![p] = Idle]
    /\ UNCHANGED <<borrower, fines, clock>>

\* checkin_loans (CLI) up to the UPDATE: the empty list returns at once,
\* otherwise today = date.today() is read
StartCheckinBatch(p, ids) ==
    /\ req[p] = Idle
    /\ last = None
    /\ IF ids # {}
       THEN /\ req' = [req EXCEPT ![p] = [op |-> "checkinBatch", entry |-> "cli",
                                          arg |-> ids, today |-> clock]]
            /\ last' = last
       ELSE /\ req' = req
            /\ last' = [op |-> "checkinBatch", entry |-> "cli", arg |-> ids,
                        res |-> "ok", out |-> 0]
    /\ UNCHANGED <<borrower, book_loans, fines, clock>>

\* checkin_loans from the UPDATE on
CheckinBatchUpdate(p) ==
    /\ req[p].op = "checkinBatch"
    /\ last = None
    /\ book_loans' = CloseLoans(req[p].arg, req[p].today)
    /\ last' = [op |-> "checkinBatch", entry |-> "cli", arg |-> req[p].arg,
                res |-> "ok", out |-> 0]
    /\ req' = [req EXCEPT ![p] = Idle]
    /\ UNCHANGED <<borrower, fines, clock>>

\* midnight passes while handlers are in mid-request
TickDuring ==
    /\ last = None
    /\ clock + DayStep <= MaxDay
    /\ clock' = clock + DayStep
    /\ UNCHANGED <<borrower, book_loans, fines, last, req>>

\* the (isbn, card) pairs checked out, and the loan id lists checked in,
\* while check-in handlers run concurrently
RaceCheckinCheckouts == {"b1", "b2"} \X {FormatCard(1)}
RaceCheckinIds == 1..MaxLoans
RaceCheckinBatches == {{}, {1}, {1, 2}}

NextCheckinRace ==
    \/ \E e \in Entries, a \in RaceCheckinCheckouts : Checkout(e, a[1], a[2])
    \/ \E p \in Procs, id \in RaceCheckinIds : StartCheckin(p, id)
    \/ \E p \in Procs : CheckinUpdate(p)
    \/ \E p \in Procs, ids \in RaceCheckinBatches : StartCheckinBatch(p, ids)
    \/ \E p \in Procs : CheckinBatchUpdate(p)
    \/ TickDuring
    \/ Return

SpecCheckinRace == Init /\ [][NextCheckinRace]_vars

(***************************************************************************)
(* Fines over several days: the operations one at a time, one borrower,    *)
(* and a clock that is observed often enough for a fine to grow between    *)
(* two sweeps.                                                             *)
(***************************************************************************)
TickFines ==
    /\ Quiet
    /\ clock + FineDayStep <= FineMaxDay
    /\ clock' = clock + FineDayStep
    /\ UNCHANGED <<borrower, book_loans, fines, last, req>>

\* the (isbn, card) pairs checked out, and the loan id lists checked in
FineCheckouts == {"b1", "b2"} \X {FormatCard(1)}
FineBatches == {{}, {1, 2}}

NextFines ==
    \/ \E e \in Entries, a \in FineCheckouts : Checkout(e, a[1], a[2])
    \/ \E id \in 1..MaxLoans : Checkin(id)
    \/ \E ids \in FineBatches : CheckinBatch(ids)
    \/ \E e \in Entries : Recompute(e)
    \/ \E e \in Entries : PayAll(e, FormatCard(1))
    \/ TickFines
    \/ Return

SpecFines == Init /\ [][NextFines]_vars

(***************************************************************************)
(* Concurrent fine handlers.  A sweep reads the overdue loans and the Paid *)
(* flag of their fines from its snapshot and then writes: an INSERT for a  *)
(* loan it saw without a fine, an UPDATE of Fine_amt for one it saw        *)
(* unpaid.  The writes meet the rows as committed at that moment and stay  *)
(* private until the commit, so they and the commit are one step.          *)
(***************************************************************************)
\* what the sweep reads: per overdue loan its amount and the fine it saw
SweepPlan(today) ==
    [id \in OverdueLoans(today) |->
        [amt  |-> FineAmt(LateDays(book_loans[id], today)),
         seen |-> IF id \notin DOMAIN fines THEN "none"
                  ELSE IF ~fines[id].Paid THEN "unpaid" ELSE "paid"]]

\* a variant without the primary key on FINES.Loan_id
SweepConflicts_NoKey(plan) == {}

\* pk_fines: the INSERT of a loan that has got a FINES row since is refused
SweepConflicts(plan) ==
    {id \in DOMAIN plan : plan[id].seen = "none" /\ id \in DOMAIN fines}

\* INSERT INTO FINES (Loan_id, Fine_amt, Paid) VALUES (%s, %s, 0)
\* UPDATE FINES SET Fine_amt = %s WHERE Loan_id = %s
SweepApply(plan) ==
    [id \in DOMAIN fines \cup DOMAIN plan |->
        IF id \in DOMAIN plan /\ plan[id].seen = "none"
        THEN [Fine_amt |-> plan[id].amt, Paid |-> FALSE]
        ELSE IF id \in DOMAIN plan /\ plan[id].seen = "unpaid"
        THEN [fines[id] EXCEPT !.Fine_amt = plan[id].amt]
        ELSE fines[id]]

\* a variant without the rollback: the writes issued before the refused
\* INSERT stay
SweepOutcome_NoRollback(plan) ==
    SweepApply([id \in {i \in DOMAIN plan : \A c \in SweepConflicts(plan) : i < c}
                   |-> plan[id]])

\* conn.commit() after the loop, or conn.rollback() when a statement raised
SweepOutcome(plan) == IF SweepConflicts(plan) # {} THEN fines ELSE SweepApply(plan)

\* update_fines up to its first write: today and the snapshot reads
StartRecompute(p, entry) ==
    /\ req[p] = Idle
    /\ last = None
    /\ req' = [req EXCEPT ![p] = [op |-> "recompute", entry |-> entry,
                                  today |-> clock, plan |-> SweepPlan(clock)]]
    /\ UNCHANGED <<borrower, book_loans, fines, clock, last>>

\* a variant whose failure path does not reach the finally block
RecomputeWrite_NoFinally(p) ==
    /\ req[p].op = "recompute"
    /\ last = None
    /\ fines' = SweepOutcome(req[p].plan)
    /\ last' = [op |-> "recompute", entry |-> req[p].entry, arg |-> req[p].today,
                res |-> IF SweepConflicts(req[p].plan) # {} THEN "StorageError"
                        ELSE "ok",
                out |-> 0]
    /\ req' = IF SweepConflicts(req[p].plan) # {} THEN req
              ELSE [req EXCEPT ![p] = Idle]
    /\ UNCHANGED <<borrower, book_loans, clock>>

\* update_fines from its first write to the commit or the rollback
RecomputeWrite(p) ==
    /\ req[p].op = "recompute"
    /\ last = None
    /\ fines' = SweepOutcome(req[p].plan)
    /\ last' = [op |-> "recompute", entry |-> req[p].entry, arg |-> req[p].today,
                res |-> IF SweepConflicts(req[p].plan) # {} THEN "StorageError"
                        ELSE "ok",
                out |-> 0]
    /\ req' = [req EXCEPT ![p] = Idle]
    /\ UNCHANGED <<borrower, book_loans, clock>>

\* pay_all_fines / pay_fines up to the UPDATE: the borrower and the gate reads
StartPay(p, entry, card) ==
    LET res == PayAllResult(entry, card)
    IN  /\ req[p] = Idle
        /\ last = None
        /\ IF res = "ok"
           THEN /\ req' = [req EXCEPT ![p] = [op |-> "payAll", entry |-> entry,
                                              arg |-> card]]
                /\ last' = last
           ELSE /\ req' = req
                /\ last' = [op |-> "payAll", entry |-> entry, arg |-> card,
                            res |-> res, out |-> 0]
        /\ UNCHANGED <<borrower, book_loans, fines, clock>>

\* pay_all_fines / pay_fines from the UPDATE on: it meets the rows as
\* committed at that moment; then the commit
PayUpdate(p) ==
    /\ req[p].op = "payAll"
    /\ last = None
    /\ fines' = PayFines(req[p].arg)
    /\ last' = [op |-> "payAll", entry |-> req[p].entry, arg |-> req[p].arg,
                res |-> "ok", out |-> 0]
    /\ req' = [req EXCEPT ![p] = Idle]
    /\ UNCHANGED <<borrower, book_loans, clock>>

NextFinesRace ==
    \/ \E a \in FineCheckouts : StartCheckout("p1", "http", a[1], a[2])
    \/ CheckoutInsert("p1")
    \/ \E id \in 1..FineRaceLoans : StartCheckin("p1", id)
    \/ CheckinUpdate("p1")
    \/ \E p \in Procs, e \in Entries : StartRecompute(p, e)
    \/ \E p \in Procs : RecomputeWrite(p)
    \/ \E e \in Entries : StartPay("p2", e, FormatCard(1))
    \/ PayUpdate("p2")
    \/ TickFines
    \/ Return

SpecFinesRace == Init /\ [][NextFinesRace]_vars

(***************************************************************************)
(* The read-only operations: the fines summary and the open loans          *)
(***************************************************************************)
\* a filter the caller leaves out (None)
NoCard == <<>>
NoText == "-"

RECURSIVE SumFineAmt(_)
\* SUM(f.Fine_amt) over the FINES rows of a group
SumFineAmt(ids) ==
    IF ids = {} THEN 0
    ELSE LET id == CHOOSE x \in ids : TRUE
         IN  fines[id].Fine_amt + SumFineAmt(ids \ {id})

\* a variant of the WHERE clause that never adds f.Paid = 0
SummaryRows_WithPaid(b, card, include_paid) ==
    {id \in DOMAIN fines :
        /\ book_loans[id].Card_id = b.Card_id
        /\ (card # NoCard => b.Card_id = card)}

\* BORROWER JOIN BOOK_LOANS JOIN FINES WHERE 1=1 [AND f.Paid = 0]
\* [AND br.Card_id = %s]: the FINES rows joined to borrower b
SummaryRows(b, card, include_paid) ==
    {id \in DOMAIN fines :
        /\ book_loans[id].Card_id = b.Card_id
        /\ (~include_paid => ~fines[id].Paid)
        /\ (card # NoCard => b.Card_id = card)}

\* float(row['total_fine_amt']) if it is truthy, else 0.0 (HTTP only)
TotalOut(entry, total) == IF entry = "http" /\ total = 0 THEN 0 ELSE total

\* GROUP BY br.Card_id, br.Bname: one row per borrower with a joined row
FinesSummary(entry, card, include_paid) ==
    {[card_id       |-> b.Card_id,
      borrower_name |-> b.Bname,
      total_fine    |-> TotalOut(entry, SumFineAmt(SummaryRows(b, card, include_paid)))] :
        b \in {x \in borrower : SummaryRows(x, card, include_paid) # {}}}

\* get_fines_summary (CLI: include_paid; HTTP: unpaid_only = not include_paid)
Summary(entry, card, include_paid) ==
    /\ Quiet
    /\ last' = [op |-> "summary", entry |-> entry, arg |-> <<card, include_paid>>,
                res |-> "ok", out |-> FinesSummary(entry, card, include_paid)]
    /\ UNCHANGED <<borrower, book_loans, fines, clock, req>>

\* LOWER(...) on the one-letter names and queries of the model
Lower(t) == IF t = "N" THEN "n" ELSE t

\* LOWER(br.Bname) LIKE %query.lower()%
NameMatches(name, query) == query = "" \/ Lower(query) = Lower(name)

\* a variant of the WHERE clause without bl.Date_in IS NULL
ActiveRows_AnyLoan(isbn, card, name_query) ==
    {id \in DOMAIN book_loans :
        /\ BookExists(book_loans[id].Isbn)
        /\ (isbn # NoText => book_loans[id].Isbn = isbn)
        /\ (card # NoCard => book_loans[id].Card_id = card)
        /\ \E b \in borrower :
              /\ b.Card_id = book_loans[id].Card_id
              /\ (name_query # NoText => NameMatches(b.Bname, name_query))}

\* BOOK_LOANS JOIN BOOK JOIN BORROWER WHERE bl.Date_in IS NULL [AND bl.Isbn = %s]
\* [AND bl.Card_id = %s] [AND LOWER(br.Bname) LIKE %s]
ActiveRows(isbn, card, name_query) ==
    {id \in DOMAIN book_loans :
        /\ book_loans[id].Date_in = NULL
        /\ BookExists(book_loans[id].Isbn)
        /\ (isbn # NoText => book_loans[id].Isbn = isbn)
        /\ (card # NoCard => book_loans[id].Card_id = card)
        /\ \E b \in borrower :
              /\ b.Card_id = book_loans[id].Card_id
              /\ (name_query # NoText => NameMatches(b.Bname, name_query))}

\* ORDER BY bl.Due_date: every listing of the rows with the due dates in
\* ascending order; rows with the same due date come in any order
OrderedByDue(ids) ==
    {s \in [1..Cardinality(ids) -> ids] :
        /\ \A i, j \in DOMAIN s : i # j => s[i] # s[j]
        /\ \A i, j \in DOMAIN s : i < j =>
              book_loans[s[i]].Due_date <= book_loans[s[j]].Due_date}

\* the row returned for a loan
LoanView(id) ==
    [loan_id  |-> id,
     isbn     |-> book_loans[id].Isbn,
     card_id  |-> book_loans[id].Card_id,
     date_out |-> book_loans[id].Date_out,
     due_date |-> book_loans[id].Due_date]

\* find_active_loans (CLI) / get_open_loans (HTTP)
FindActive(entry, isbn, card, name_query) ==
    /\ Quiet
    /\ \E s \in OrderedByDue(ActiveRows(isbn, card, name_query)) :
          last' = [op |-> "findActive", entry |-> entry,
                   arg |-> <<isbn, card, name_query>>, res |-> "ok",
                   out |-> [i \in DOMAIN s |-> LoanView(s[i])]]
    /\ UNCHANGED <<borrower, book_loans, fines, clock, req>>

\* the loans and fines the read-only operations are asked about
ReportCheckouts ==
    ({"b1", "b2"} \X {FormatCard(1)}) \cup ({"b1", "b3"} \X {FormatCard(2)})

\* (borrower, include paid) of the summaries asked for
SummaryInputs ==
    {<<NoCard, FALSE>>, <<NoCard, TRUE>>, <<FormatCard(1), FALSE>>,
     <<FormatCard(2), TRUE>>, <<FormatCard(3), TRUE>>}

\* (isbn, borrower, name) of the open-loan searches asked for
FindInputs ==
    {<<NoText, NoCard, NoText>>, <<"b1", NoCard, NoText>>,
     <<NoText, FormatCard(1), NoText>>, <<"b1", FormatCard(2), NoText>>,
     <<NoText, NoCard, "N">>, <<NoText, FormatCard(1), "z">>}

NextReports ==
    \/ \E a \in ReportCheckouts : Checkout("http", a[1], a[2])
    \/ \E id \in 1..MaxLoans : Checkin(id)
    \/ Recompute("cli")
    \/ \E card \in {FormatCard(1), FormatCard(2)} : PayAll("http", card)
    \/ \E e \in Entries, a \in SummaryInputs : Summary(e, a[1], a[2])
    \/ \E e \in Entries, a \in FindInputs : FindActive(e, a[1], a[2], a[3])
    \/ Tick
    \/ Return

SpecReports == Init /\ [][NextReports]_vars

(***************************************************************************)
(* Card ids at the end of the fixed width.  borrower.csv supplies the      *)
(* Card_id of the imported rows, so the table may start with any id of the *)
(* fixed format, the last ones included.                                   *)
(***************************************************************************)
\* the largest number that fits the fixed width
AllNines == ParseDigits([i \in 1..CardWidth |-> 9])

\* the creates asked for: complete fields, natural ids not imported
WidthCreates ==
    { <<"s2", <<"n", "a", "p">> >>, <<"s3", <<"n", "a", "p">> >>,
      <<"s4", <<"n", "a", "p">> >> }

InitWidth ==
    /\ borrower \in {{NewBorrower(FormatCard(n), "s1", <<"n", "a", "p">>)} :
                        n \in {1, AllNines - 1, AllNines}}
    /\ book_loans = <<>>
    /\ fines = <<>>
    /\ clock = 0
    /\ last = None
    /\ req = [p \in Procs |-> Idle]

NextWidth ==
    \/ \E a \in WidthCreates : Create("http", a[1], a[2])
    \/ Return

SpecWidth == InitWidth /\ [][NextWidth]_vars

(***************************************************************************)
(* All mutating operations side by side, one at a time                     *)
(***************************************************************************)
\* the creates asked for: a new natural id, a stored one, an empty field
FrameCreates ==
    { <<"s3", <<"n", "a", "p">> >>, <<"s1", <<"n", "a", "p">> >>,
      <<"s3", <<"n", "", "p">> >> }

FrameCheckouts == {"b1", "b2", "bx"} \X {FormatCard(1)}

NextFrame ==
    \/ \E e \in Entries, a \in FrameCheckouts : Checkout(e, a[1], a[2])
    \/ \E id \in 1..MaxLoans : Checkin(id)
    \/ \E ids \in FineBatches : CheckinBatch(ids)
    \/ \E e \in Entries : Recompute(e)
    \/ \E e \in Entries : PayAll(e, FormatCard(1))
    \/ \E e \in Entries, a \in FrameCreates : Create(e, a[1], a[2])
    \/ Tick
    \/ Return

SpecFrame == Init /\ [][NextFrame]_vars

(***************************************************************************)
(* The claims.  Their vocabulary is defined here from the rows themselves. *)
(***************************************************************************)
\* the OPEN loans (date closed unset) of a borrower, and of a book
OpenOf(card) ==
    {id \in DOMAIN book_loans :
        book_loans[id].Card_id = card /\ book_loans[id].Date_in = NULL}
OpenOn(isbn) ==
    {id \in DOMAIN book_loans :
        book_loans[id].Isbn = isbn /\ book_loans[id].Date_in = NULL}
\* the unpaid Fines on the loans of a borrower
UnpaidOf(card) ==
    {id \in DOMAIN fines : book_loans[id].Card_id = card /\ fines[id].Paid = FALSE}
Stored(card) == card \in {b.Card_id : b \in borrower}

\* the state a completed checkout was called in, seen from the state it left:
\* a refused checkout changes nothing, an accepted one added the newest OPEN loan
OpenOfBefore(l) == OpenOf(l.arg[2]) \ (IF l.res = "ok" THEN {l.out} ELSE {})
OpenOnBefore(l) == OpenOn(l.arg[1]) \ (IF l.res = "ok" THEN {l.out} ELSE {})

\* C1, as stated: no borrower ever has more than 3 OPEN loans; a checkout by a
\* borrower who already has 3 OPEN loans fails with MaxActiveLoansError; a
\* borrower with fewer than 3 OPEN loans is not refused for that reason.
C1_MaxThreeOpen_AsStated ==
    /\ \A c \in Cards : Cardinality(OpenOf(c)) <= 3
    /\ (last.op = "checkout" /\ Cardinality(OpenOfBefore(last)) >= 3)
          => last.res = "MaxActiveLoansError"
    /\ \A e \in Entries, a \in CheckoutInputs :
          (last = None /\ Cardinality(OpenOf(a[2])) < 3)
             => CheckoutResult(e, a[1], a[2]) # "MaxActiveLoansError"

\* C1, amended: no borrower ever has more than 3 OPEN loans; a checkout by a
\* borrower who already has 3 OPEN loans fails, with UnpaidFinesError when the
\* borrower has an unpaid Fine and with MaxActiveLoansError otherwise; a
\* borrower with fewer than 3 OPEN loans is not refused with MaxActiveLoansError.
C1_MaxThreeOpen ==
    /\ \A c \in Cards : Cardinality(OpenOf(c)) <= 3
    /\ (last.op = "checkout" /\ Cardinality(OpenOfBefore(last)) >= 3)
          => last.res = IF UnpaidOf(last.arg[2]) # {} THEN "UnpaidFinesError"
                        ELSE "MaxActiveLoansError"
    /\ \A e \in Entries, a \in CheckoutInputs :
          (last = None /\ Cardinality(OpenOf(a[2])) < 3)
             => CheckoutResult(e, a[1], a[2]) # "MaxActiveLoansError"

\* C1, its case: a borrower whose three loans were all OPEN has just had one
\* of them checked in, and a checkout by that borrower is accepted again
C1_Witness ==
    /\ last.op = "checkin" /\ last.res = "ok"
    /\ Len(book_loans) = 3
    /\ \A id \in 1..3 : book_loans[id].Card_id = FormatCard(1)
    /\ Cardinality(OpenOf(FormatCard(1))) = 2
    /\ CheckoutResult("http", book_loans[last.arg].Isbn, FormatCard(1)) = "ok"

\* C2, as stated: no book ever has more than 1 OPEN loan; a checkout of a book
\* that has an OPEN loan fails with BookUnavailableError; a book without an
\* OPEN loan is not refused for that reason.
C2_OneOpenPerBook_AsStated ==
    /\ \A k \in Isbns : Cardinality(OpenOn(k)) <= 1
    /\ (last.op = "checkout" /\ OpenOnBefore(last) # {})
          => last.res = "BookUnavailableError"
    /\ \A e \in Entries, a \in CheckoutInputs :
          (last = None /\ OpenOn(a[1]) = {}) => CheckoutResult(e, a[1], a[2]) # "BookUnavailableError"

\* C2, amended: no book ever has more than 1 OPEN loan; a checkout of a book
\* that has an OPEN loan fails, with BookUnavailableError when the borrower is
\* stored, has no unpaid Fine and has fewer than 3 OPEN loans; a book without
\* an OPEN loan is not refused with BookUnavailableError.
C2_OneOpenPerBook ==
    /\ \A k \in Isbns : Cardinality(OpenOn(k)) <= 1
    /\ (last.op = "checkout" /\ OpenOnBefore(last) # {})
          => /\ last.res # "ok"
             /\ (/\ Stored(last.arg[2])
                 /\ UnpaidOf(last.arg[2]) = {}
                 /\ Cardinality(OpenOf(last.arg[2])) < 3)
                   => last.res = "BookUnavailableError"
    /\ \A e \in Entries, a \in CheckoutInputs :
          (last = None /\ OpenOn(a[1]) = {}) => CheckoutResult(e, a[1], a[2]) # "BookUnavailableError"

\* C2, its case: the OPEN loan of a book has just been checked in, and a
\* checkout of that book by the other borrower is accepted
C2_Witness ==
    /\ last.op = "checkin" /\ last.res = "ok"
    /\ book_loans[last.arg].Card_id = FormatCard(1)
    /\ book_loans[last.arg].Isbn = "b1"
    /\ OpenOn("b1") = {}
    /\ CheckoutResult("cli", "b1", FormatCard(2)) = "ok"

\* C3, as stated: with checkout handlers interleaved between their reads and
\* their INSERT, a borrower whose OPEN loans are all on distinct books never
\* has more than 3 of them.
C3_MaxThreeOpenConcurrent ==
    \A c \in Cards :
        Cardinality({book_loans[id].Isbn : id \in OpenOf(c)}) = Cardinality(OpenOf(c))
            => Cardinality(OpenOf(c)) <= 3

\* C4, as stated: with checkout handlers interleaved between their reads and
\* their INSERT, no book ever has more than 1 OPEN loan.
C4_OneOpenPerBookConcurrent ==
    \A k \in BOOK : Cardinality({id \in DOMAIN book_loans :
                        book_loans[id].Isbn = k /\ book_loans[id].Date_in = NULL}) <= 1

\* the Borrower rows that hold a natural id
RowsOfSsn(ssn) == {b \in borrower : b.Ssn = ssn}

\* C5: under every interleaving of concurrent creates, no two Borrower rows
\* have the same natural id (SSN).
C5_SsnUnique == \A x, y \in borrower : x.Ssn = y.Ssn => x = y

\* C5, its case: a CLI create passed its SSN lookup, lost the race to an HTTP
\* create of the same SSN, and its INSERT of a card id nobody holds was refused
C5_Witness ==
    /\ last.op = "create" /\ last.at = "insert" /\ last.entry = "cli"
    /\ last.res = "StorageError"
    /\ ~Stored(ToDigits(1))
    /\ \E b \in RowsOfSsn(last.arg[1]) : b.Card_id = FormatCard(1)

\* C6, as stated: a create whose natural id is already stored fails with
\* DuplicateIdentityError and leaves the Borrower relation unchanged, with
\* exactly one row for that natural id.
C6_DuplicateRefused_AsStated ==
    [][(last = None /\ last'.op = "create" /\ last'.at # "insert"
            /\ RowsOfSsn(last'.arg[1]) # {})
          => /\ last'.res = "DuplicateIdentityError"
             /\ borrower' = borrower
             /\ Cardinality(RowsOfSsn(last'.arg[1])) = 1]_vars

\* C6, amended: a create with four non-empty fields whose natural id is already
\* stored fails with DuplicateIdentityError and leaves the Borrower relation
\* unchanged, with exactly one row for that natural id.
C6_DuplicateRefused ==
    [][(last = None /\ last'.op = "create" /\ last'.at # "insert"
            /\ RowsOfSsn(last'.arg[1]) # {}
            /\ last'.arg[1] # "" /\ \A i \in 1..3 : last'.arg[2][i] # "")
          => /\ last'.res = "DuplicateIdentityError"
             /\ borrower' = borrower
             /\ Cardinality(RowsOfSsn(last'.arg[1])) = 1]_vars

\* C6, its case: a complete CLI create of a stored natural id has been refused
C6_Witness ==
    /\ last.op = "create" /\ last.at = "alone" /\ last.entry = "cli"
    /\ last.res = "DuplicateIdentityError"
    /\ \A i \in 1..3 : last.arg[2][i] # ""
    /\ Cardinality(RowsOfSsn(last.arg[1])) = 1

\* C7: a create with any of its four fields empty fails with ValidationError
\* and leaves the Borrower relation unchanged, whether or not the natural id
\* is already stored.
C7_ValidationFirst ==
    [][(last = None /\ last'.op = "create"
            /\ (last'.arg[1] = "" \/ \E i \in 1..3 : last'.arg[2][i] = ""))
          => /\ last'.res = "ValidationError"
             /\ borrower' = borrower]_vars

\* C7, its case: a create without a phone, and one without a name whose
\* natural id is already stored, has been refused with ValidationError
C7_Witness ==
    /\ last.op = "create" /\ last.res = "ValidationError"
    /\ \/ last.arg[2][3] = ""
       \/ last.arg[2][1] = "" /\ RowsOfSsn(last.arg[1]) # {}
    /\ last.arg[2][3] = "" => RowsOfSsn(last.arg[1]) = {}

\* the five preconditions of checkout, read from the rows
BorrowerKnown(card) == Stored(card)
NoUnpaidFine(card) == UnpaidOf(card) = {}
UnderLimit(card) == Cardinality(OpenOf(card)) < 3
NoOpenLoanOn(isbn) == OpenOn(isbn) = {}
BookKnown(isbn) == isbn \in BOOK

\* C8: a checkout succeeds exactly when the borrower exists, has no unpaid
\* Fine and fewer than 3 OPEN loans, and the book has no OPEN loan and exists;
\* on success exactly one Loan row is added, with a fresh identifier,
\* dateOpened = today, dueDate = today + 14 and dateClosed unset, nothing else
\* changes, and the book has an OPEN loan afterwards.
C8_CheckoutContract ==
    [][(last = None /\ last'.op = "checkout")
          => LET isbn == last'.arg[1]
                 card == last'.arg[2]
             IN  /\ (last'.res = "ok") <=>
                        (/\ BorrowerKnown(card) /\ NoUnpaidFine(card)
                         /\ UnderLimit(card) /\ NoOpenLoanOn(isbn) /\ BookKnown(isbn))
                 /\ last'.res = "ok" =>
                        /\ last'.out \notin DOMAIN book_loans
                        /\ DOMAIN book_loans' = DOMAIN book_loans \cup {last'.out}
                        /\ \A id \in DOMAIN book_loans : book_loans'[id] = book_loans[id]
                        /\ book_loans'[last'.out] =
                              [Isbn |-> isbn, Card_id |-> card, Date_out |-> clock,
                               Due_date |-> clock + 14, Date_in |-> -1]
                        /\ borrower' = borrower /\ fines' = fines /\ clock' = clock
                        /\ \E id \in DOMAIN book_loans' :
                              book_loans'[id].Isbn = isbn /\ book_loans'[id].Date_in = -1
       ]_vars

\* C8, its case: a checkout through the CLI has succeeded on a later day, for a
\* borrower who already held a loan, and a second borrower holds a loan too
C8_Witness ==
    /\ last.op = "checkout" /\ last.res = "ok" /\ last.entry = "cli"
    /\ last.out = 3
    /\ book_loans[3].Date_out = DayStep /\ book_loans[3].Due_date = DayStep + 14
    /\ book_loans[1].Card_id = book_loans[3].Card_id
    /\ book_loans[2].Card_id # book_loans[3].Card_id

\* the kind the first failing precondition of a checkout has, in the order
\* borrower-exists, no-unpaid-fines, fewer-than-3-open-loans, book-available,
\* book-exists
FailingKinds(isbn, card) ==
    <<IF BorrowerKnown(card) THEN "pass" ELSE "BorrowerNotFound",
      IF NoUnpaidFine(card) THEN "pass" ELSE "UnpaidFinesError",
      IF UnderLimit(card) THEN "pass" ELSE "MaxActiveLoansError",
      IF NoOpenLoanOn(isbn) THEN "pass" ELSE "BookUnavailableError",
      IF BookKnown(isbn) THEN "pass" ELSE "BookNotFound">>
Failing(isbn, card) == {i \in 1..5 : FailingKinds(isbn, card)[i] # "pass"}

\* C9, as stated: a checkout for which several preconditions fail at once
\* reports the failure kind of the first failing one in the order
\* borrower-exists, no-unpaid-fines, fewer-than-3-open-loans, book-available,
\* book-exists.
C9_FirstFailingReported ==
    (last.op = "checkout" /\ Cardinality(Failing(last.arg[1], last.arg[2])) >= 2)
        => \E i \in Failing(last.arg[1], last.arg[2]) :
              /\ \A j \in Failing(last.arg[1], last.arg[2]) : i <= j
              /\ last.res = FailingKinds(last.arg[1], last.arg[2])[i]

\* C10, as stated: through every entry point, a checkout for a card id that
\* matches no borrower fails with BorrowerNotFound, a checkout by an eligible
\* borrower of an ISBN that is not in the catalog fails with BookNotFound, and
\* no checkout surfaces a raw storage error.
C10_StructuredNotFound ==
    last.op = "checkout"
        => /\ last.res # "StorageError"
           /\ ~BorrowerKnown(last.arg[2]) => last.res = "BorrowerNotFound"
           /\ Failing(last.arg[1], last.arg[2]) = {5} => last.res = "BookNotFound"

\* C11: a checkout that fails, for whatever reason, leaves the Loan, Fine and
\* Borrower relations exactly as they were; the OPEN loans of the borrower are
\* the same after a MaxActiveLoansError.
C11_FailedCheckoutWritesNothing ==
    [][(last = None /\ last'.op = "checkout" /\ last'.res # "ok")
          => /\ book_loans' = book_loans
             /\ fines' = fines
             /\ borrower' = borrower]_vars

\* C11, its case: a borrower with three OPEN loans has been refused with
\* MaxActiveLoansError and still has exactly those three loans
C11_Witness ==
    /\ last.op = "checkout" /\ last.res = "MaxActiveLoansError"
    /\ Len(book_loans) = 3
    /\ OpenOf(last.arg[2]) = {1, 2, 3}

\* C12: a checkout by a stored borrower fails with UnpaidFinesError exactly
\* when a Fine with paid = false belongs to a loan of that borrower, OPEN or
\* CLOSED; the Fines of other borrowers play no part.
C12_UnpaidFinesGate ==
    (last.op = "checkout" /\ Stored(last.arg[2]))
        => (last.res = "UnpaidFinesError" <=> UnpaidOf(last.arg[2]) # {})

\* C12, its case: a borrower whose only unpaid Fine is on a CLOSED loan has
\* been refused with UnpaidFinesError
C12_Witness ==
    /\ last.op = "checkout" /\ last.res = "UnpaidFinesError"
    /\ UnpaidOf(last.arg[2]) # {}
    /\ \A id \in UnpaidOf(last.arg[2]) : book_loans[id].Date_in # -1

\* C13: every Loan has dueDate = dateOpened + 14, and no step changes the
\* dateOpened, dueDate, book or borrower of a Loan that exists.
C13_LoanTermsFixed ==
    [][/\ \A id \in DOMAIN book_loans' :
             book_loans'[id].Due_date = book_loans'[id].Date_out + 14
       /\ \A id \in DOMAIN book_loans :
             /\ id \in DOMAIN book_loans'
             /\ book_loans'[id].Date_out = book_loans[id].Date_out
             /\ book_loans'[id].Due_date = book_loans[id].Due_date
             /\ book_loans'[id].Isbn = book_loans[id].Isbn
             /\ book_loans'[id].Card_id = book_loans[id].Card_id]_vars

\* C13, its case: the first loan was opened on day 0, fined, checked in late
\* and paid, and a later loan was opened after it; its terms are the original
C13_Witness ==
    /\ Len(book_loans) >= 2
    /\ book_loans[1].Date_out = 0 /\ book_loans[1].Due_date = 14
    /\ book_loans[1].Date_in > 14
    /\ 1 \in DOMAIN fines /\ fines[1].Paid
    /\ book_loans[2].Date_out = book_loans[1].Date_in

\* C14: a Loan is created OPEN; once its dateClosed is set it never changes
\* and is never unset, also when check-ins of the same loan run concurrently;
\* no Loan row is ever removed.
C14_LoanLifecycle ==
    [][/\ \A id \in DOMAIN book_loans :
             /\ id \in DOMAIN book_loans'
             /\ book_loans[id].Date_in # -1
                   => book_loans'[id].Date_in = book_loans[id].Date_in
       /\ \A id \in DOMAIN book_loans' \ DOMAIN book_loans :
             book_loans'[id].Date_in = -1]_vars

\* C14, its case: two check-ins of the same loan both found it OPEN; the
\* second one's UPDATE ran a day after the first had closed the loan and has
\* answered, and the loan still carries the first day
C14_Witness ==
    /\ last.op = "checkin" /\ last.res = "ok"
    /\ clock = DayStep
    /\ book_loans[last.arg].Date_in = 0

\* C15: a single-loan check-in of an OPEN loan succeeds and sets its
\* dateClosed to today, leaving the other Loans as they were; a check-in of an
\* id that is unknown or already CLOSED fails with LoanNotFoundOrClosed and
\* leaves every Loan row unchanged.
C15_SingleCheckin ==
    [][(last = None /\ last'.op = "checkin")
          => IF last'.arg \in DOMAIN book_loans /\ book_loans[last'.arg].Date_in = -1
             THEN /\ last'.res = "ok"
                  /\ book_loans' = [book_loans EXCEPT ![last'.arg].Date_in = clock]
             ELSE /\ last'.res = "LoanNotFoundOrClosed"
                  /\ book_loans' = book_loans]_vars

\* C15, its case: a loan checked in on day 0 has been checked in again on a
\* later day; the second check-in was rejected and the loan keeps day 0
C15_Witness ==
    /\ last.op = "checkin" /\ last.res = "LoanNotFoundOrClosed"
    /\ last.arg \in DOMAIN book_loans
    /\ book_loans[last.arg].Date_in = 0
    /\ clock > 0

\* C16: a batch check-in sets dateClosed = today on exactly the listed loans
\* that are OPEN; listed ids that are unknown or CLOSED are skipped without an
\* error and keep their rows; unlisted loans are unchanged; the empty list
\* changes nothing.
C16_BatchCheckin ==
    [][(last = None /\ last'.op = "checkinBatch")
          => /\ last'.res = "ok"
             /\ DOMAIN book_loans' = DOMAIN book_loans
             /\ \A id \in DOMAIN book_loans :
                   book_loans'[id] =
                      IF id \in last'.arg /\ book_loans[id].Date_in = -1
                      THEN [book_loans[id] EXCEPT !.Date_in = clock]
                      ELSE book_loans[id]
             /\ fines' = fines /\ borrower' = borrower]_vars

\* C16, its case: the batch {1, 2} was sent a day after loan 1 was closed,
\* with loans 2 and 3 OPEN: loan 1 keeps its day, loan 2 is closed today and
\* loan 3 stays OPEN
C16_Witness ==
    /\ last.op = "checkinBatch" /\ last.arg = {1, 2}
    /\ Len(book_loans) = 3
    /\ clock > 0
    /\ book_loans[1].Date_in = 0
    /\ book_loans[2].Date_in = clock
    /\ book_loans[3].Date_in = -1

\* the days a Loan is late on the day today: dateClosed - dueDate when it is
\* CLOSED and was closed after its due date, today - dueDate when it is OPEN
\* and today is after its due date, 0 otherwise
LateOn(l, today) ==
    IF l.Date_in # -1
    THEN IF l.Date_in > l.Due_date THEN l.Date_in - l.Due_date ELSE 0
    ELSE IF today > l.Due_date THEN today - l.Due_date ELSE 0

\* C17: recompute gives every loan with lateDays > 0 and no Fine a new Fine of
\* lateDays x 0.25 with paid = false, overwrites the amount of its unpaid Fine
\* with lateDays x 0.25, leaves its paid Fine untouched, and inserts or
\* modifies no Fine of a loan with lateDays = 0.
C17_Recompute ==
    [][(last = None /\ last'.op = "recompute")
          => /\ book_loans' = book_loans
             /\ DOMAIN fines' \subseteq DOMAIN book_loans
             /\ \A id \in DOMAIN book_loans :
                   LET late == LateOn(book_loans[id], clock)
                   IN  IF late > 0 /\ id \notin DOMAIN fines
                       THEN /\ id \in DOMAIN fines'
                            /\ fines'[id] = [Fine_amt |-> late * 25, Paid |-> FALSE]
                       ELSE IF late > 0 /\ ~fines[id].Paid
                       THEN /\ id \in DOMAIN fines'
                            /\ fines'[id] = [Fine_amt |-> late * 25, Paid |-> FALSE]
                       ELSE IF id \in DOMAIN fines
                       THEN id \in DOMAIN fines' /\ fines'[id] = fines[id]
                       ELSE id \notin DOMAIN fines']_vars

\* C17, its case: a recompute on day 24 has met a loan closed that day whose
\* Fine was paid, an OPEN loan two days late without a Fine, and has given the
\* second its Fine of 0.50
C17_Witness ==
    /\ last.op = "recompute" /\ last.arg = 24
    /\ Len(book_loans) = 2 /\ DOMAIN fines = {1, 2}
    /\ book_loans[1].Date_in = 24 /\ fines[1].Paid
    /\ book_loans[2].Date_in = -1 /\ book_loans[2].Due_date = 22
    /\ fines[2] = [Fine_amt |-> 50, Paid |-> FALSE]

\* C18, as stated: when the last operation was a recompute, every Fine of a
\* CLOSED loan carries the amount (dateClosed - dueDate) x 0.25, and a loan
\* closed on or before its due date has no Fine.
C18_ClosedLoanFineAmount ==
    last.op = "recompute"
        => \A id \in DOMAIN book_loans :
              book_loans[id].Date_in # -1
                 => IF book_loans[id].Date_in > book_loans[id].Due_date
                    THEN id \in DOMAIN fines
                            => fines[id].Fine_amt =
                                  (book_loans[id].Date_in - book_loans[id].Due_date) * 25
                    ELSE id \notin DOMAIN fines

\* C19: in every step a Fine that exists still exists afterwards, and one with
\* paid = true still has paid = true.
C19_PaidMonotonic ==
    [][\A id \in DOMAIN fines :
          /\ id \in DOMAIN fines'
          /\ fines[id].Paid => fines'[id].Paid]_vars

\* C19, its case: a recompute has run on a day when a loan with a paid Fine is
\* late, and the Fine is still there and still paid
C19_Witness ==
    /\ last.op = "recompute"
    /\ \E id \in DOMAIN fines :
          /\ fines[id].Paid
          /\ LateOn(book_loans[id], last.arg) > 0
          /\ book_loans[id].Date_in < last.arg

\* C20: a recompute leaves the amount and the paid flag of every Fine with
\* paid = true exactly as they were, whatever today is.
C20_RecomputeKeepsPaid ==
    [][(last = None /\ last'.op = "recompute")
          => \A id \in DOMAIN fines :
                fines[id].Paid => id \in DOMAIN fines' /\ fines'[id] = fines[id]]_vars

\* C20, its case: a recompute has met a paid Fine whose amount is not the
\* loan's lateDays x 0.25 of that day, and the Fine keeps its amount
C20_Witness ==
    /\ last.op = "recompute"
    /\ \E id \in DOMAIN fines :
          /\ fines[id].Paid
          /\ fines[id].Fine_amt # LateOn(book_loans[id], last.arg) * 25

\* C21: the amount of a Fine is frozen once it is paid, also when a sweep
\* that read the Fine as unpaid writes after a payAll has committed: no step
\* changes the amount of a Fine whose paid flag is already true.
C21_PaidAmountFrozen ==
    [][\A id \in DOMAIN fines :
          fines[id].Paid => id \in DOMAIN fines'
                            /\ fines'[id].Fine_amt = fines[id].Fine_amt]_vars

\* C22: a payAll for a borrower who has an unpaid Fine on an OPEN loan fails
\* with BooksStillOutError and writes nothing: every Fine, also the unpaid
\* ones of that borrower's CLOSED loans, keeps its amount and its paid flag,
\* and no Loan changes.
C22_BooksStillOut ==
    [][(/\ last = None
        /\ last'.op = "payAll"
        /\ \E id \in DOMAIN fines :
              /\ book_loans[id].Card_id = last'.arg
              /\ book_loans[id].Date_in = -1
              /\ ~fines[id].Paid)
          => /\ last'.res = "BooksStillOutError"
             /\ fines' = fines
             /\ book_loans' = book_loans
             /\ borrower' = borrower]_vars

\* a refused payAll while the borrower has an unpaid Fine on an OPEN loan and
\* another on a CLOSED loan, which stays unpaid
C22_Witness ==
    /\ last.op = "payAll"
    /\ last.res = "BooksStillOutError"
    /\ \E i, j \in DOMAIN fines :
          /\ book_loans[i].Card_id = last.arg
          /\ book_loans[j].Card_id = last.arg
          /\ book_loans[i].Date_in = -1
          /\ book_loans[j].Date_in # -1
          /\ ~fines[i].Paid
          /\ ~fines[j].Paid

\* C23: no Fine is marked paid while its Loan is OPEN: in every step in which
\* a Fine's paid flag goes from false to true its Loan is CLOSED, and so no
\* state has a paid Fine on an OPEN loan, also when the gate read and the
\* update of a payAll are interleaved with a sweep that inserts a Fine for an
\* OPEN loan of the same borrower or with a checkout.
C23_PaidOnlyWhenClosed ==
    [][\A id \in DOMAIN fines' :
          (fines'[id].Paid /\ (id \in DOMAIN fines => ~fines[id].Paid))
             => /\ id \in DOMAIN book_loans
                /\ book_loans[id].Date_in # -1
                /\ book_loans'[id].Date_in # -1]_vars

\* a payAll has succeeded although the borrower has an unpaid Fine on an OPEN
\* loan, inserted between its gate and its update; a Fine of a CLOSED loan
\* was paid by it
C23_Witness ==
    /\ last.op = "payAll"
    /\ last.res = "ok"
    /\ \E i, j \in DOMAIN fines :
          /\ book_loans[i].Card_id = last.arg
          /\ book_loans[j].Card_id = last.arg
          /\ book_loans[i].Date_in = -1
          /\ ~fines[i].Paid
          /\ book_loans[j].Date_in # -1
          /\ fines[j].Paid

\* C24: a payAll for a borrower without an unpaid Fine on an OPEN loan sets
\* paid = true on every unpaid Fine of a CLOSED loan of that borrower in one
\* step and changes no amount; the Fines of other borrowers and all Loans are
\* unchanged, and afterwards every Fine of that borrower is paid.  An existing
\* borrower is answered with success, so a borrower who was refused can pay
\* once the open loan has been checked in.
C24_PayAll ==
    [][(/\ last = None
        /\ last'.op = "payAll"
        /\ \A id \in DOMAIN fines :
              ~(/\ book_loans[id].Card_id = last'.arg
                /\ book_loans[id].Date_in = -1
                /\ ~fines[id].Paid))
          => /\ DOMAIN fines' = DOMAIN fines
             /\ \A id \in DOMAIN fines :
                   /\ fines'[id].Fine_amt = fines[id].Fine_amt
                   /\ book_loans[id].Card_id = last'.arg => fines'[id].Paid
                   /\ book_loans[id].Card_id # last'.arg => fines'[id] = fines[id]
             /\ book_loans' = book_loans
             /\ borrower' = borrower
             /\ (\E b \in borrower : b.Card_id = last'.arg) => last'.res = "ok"]_vars

\* a payAll has succeeded for a borrower with a Fine of a loan checked in
\* late, which is paid now, while another borrower's Fine is still unpaid
C24_Witness ==
    /\ last.op = "payAll"
    /\ last.res = "ok"
    /\ \E i, j \in DOMAIN fines :
          /\ book_loans[i].Card_id = last.arg
          /\ book_loans[i].Date_in > book_loans[i].Due_date
          /\ fines[i].Paid
          /\ book_loans[j].Card_id # last.arg
          /\ ~fines[j].Paid

\* C25: a recompute is all or nothing: a sweep that is aborted before its
\* commit, here by the refusal of one of its inserts, leaves no row of its
\* own behind; the Fines and the Loans are what they were before it wrote.
C25_RecomputeAllOrNothing ==
    [][(last = None /\ last'.op = "recompute" /\ last'.res # "ok")
          => /\ fines' = fines
             /\ book_loans' = book_loans
             /\ borrower' = borrower]_vars

\* a sweep has been aborted while a Fine carries another amount than the one
\* that sweep computes for its loan
C25_Witness ==
    /\ last.op = "recompute"
    /\ last.res = "StorageError"
    /\ \E id \in DOMAIN fines :
          fines[id].Fine_amt # LateOn(book_loans[id], last.arg) * 25

\* the Fines a summary counts for borrower c: those of c's loans, the unpaid
\* ones only unless paid ones are asked for, and none when the summary is
\* restricted to another borrower
MatchingFines(c, only, include_paid) ==
    {id \in DOMAIN fines :
        /\ book_loans[id].Card_id = c
        /\ (fines[id].Paid => include_paid)
        /\ (only # <<>> => c = only)}

\* C26: a summary returns one entry for each borrower with at least one
\* matching Fine and none for any other borrower; the entry's total is the sum
\* of the amounts of that borrower's matching Fines over all loans; the
\* summary changes no state.
C26_Summary ==
    [][(last = None /\ last'.op = "summary")
          => /\ \A b \in borrower :
                   LET m == MatchingFines(b.Card_id, last'.arg[1], last'.arg[2])
                   IN  /\ m # {} => \E e \in last'.out :
                                       /\ e.card_id = b.Card_id
                                       /\ e.total_fine = SumFineAmt(m)
                       /\ m = {} => \A e \in last'.out : e.card_id # b.Card_id
             /\ \A e \in last'.out : \E b \in borrower : b.Card_id = e.card_id
             /\ \A e1, e2 \in last'.out : e1.card_id = e2.card_id => e1 = e2
             /\ <<borrower, book_loans, fines, clock>>' =
                   <<borrower, book_loans, fines, clock>>]_vars

\* a summary of the unpaid Fines of all borrowers that has one entry, the 0.50
\* one borrower owes on two loans, while another borrower's Fine is paid
C26_Witness ==
    /\ last.op = "summary"
    /\ last.arg = <<<<>>, FALSE>>
    /\ Cardinality(last.out) = 1
    /\ \E e \in last.out :
          /\ e.total_fine = 50
          /\ Cardinality({id \in DOMAIN fines : book_loans[id].Card_id = e.card_id}) = 2
    /\ \E id \in DOMAIN fines : fines[id].Paid

\* the OPEN loans that pass the book filter and the borrower filter of a
\* search ("-" and <<>> stand for a filter that is not supplied)
OpenMatching(isbn, card) ==
    {id \in DOMAIN book_loans :
        /\ book_loans[id].Date_in = -1
        /\ (isbn # "-" => book_loans[id].Isbn = isbn)
        /\ (card # <<>> => book_loans[id].Card_id = card)}

\* C27: findActive lists only OPEN loans that satisfy every supplied filter,
\* each once, with its own due date and in non-decreasing due-date order;
\* without a name filter it lists every such loan, so a loan is listed from
\* the commit of its checkout until its check-in; it changes no state.
C27_FindActive ==
    [][(last = None /\ last'.op = "findActive")
          => LET out == last'.out
                 m == OpenMatching(last'.arg[1], last'.arg[2])
             IN  /\ \A i \in DOMAIN out :
                       /\ out[i].loan_id \in m
                       /\ out[i].due_date = book_loans[out[i].loan_id].Due_date
                 /\ \A i, j \in DOMAIN out :
                       /\ i # j => out[i].loan_id # out[j].loan_id
                       /\ i < j => out[i].due_date <= out[j].due_date
                 /\ last'.arg[3] = "-" => \A id \in m : \E i \in DOMAIN out : out[i].loan_id = id
                 /\ <<borrower, book_loans, fines, clock>>' =
                       <<borrower, book_loans, fines, clock>>]_vars

\* a search by borrower that lists two OPEN loans with different due dates
\* while a CLOSED loan of that borrower is left out
C27_Witness ==
    /\ last.op = "findActive"
    /\ last.arg[2] # <<>>
    /\ Len(last.out) = 2
    /\ last.out[1].due_date < last.out[2].due_date
    /\ \E id \in DOMAIN book_loans :
          /\ book_loans[id].Card_id = last.arg[2]
          /\ book_loans[id].Date_in # -1

\* C28: when creates run one at a time, a successful create returns the card
\* id whose numeric suffix is one more than the largest suffix stored, 000001
\* for the first borrower, so the suffix is greater than that of every stored
\* borrower and differs from all of them; a failed create stores nothing.
C28_CardIdsIncrease ==
    [][(last = None /\ last'.op = "create" /\ last'.at = "alone")
          => IF last'.res = "ok"
             THEN /\ Len(last'.out) = 6
                  /\ \A b \in borrower : ParseDigits(b.Card_id) < ParseDigits(last'.out)
                  /\ \A b \in borrower : b.Card_id # last'.out
                  /\ borrower = {} => last'.out = <<0, 0, 0, 0, 0, 1>>
                  /\ \E b \in borrower' \ borrower : b.Card_id = last'.out
             ELSE borrower' = borrower]_vars

C30_OneCheckinSucceeds ==
    [][(last = None /\ last'.op = "checkin" /\ last'.res = "ok")
          => /\ book_loans[last'.arg].Date_in = -1
             /\ book_loans'[last'.arg].Date_in # -1]_vars

\* C31: a create is answered with the duplicate-identity failure only when a
\* borrower with the same natural id is stored, also when two creates with
\* different natural ids run concurrently and allocate the same card id.
C31_DuplicateOnlyForStoredSsn ==
    [][(last = None /\ last'.op = "create" /\ last'.res = "DuplicateIdentityError")
          => \E b \in borrower' : b.Ssn = last'.arg[1]]_vars

\* C32: every card id the allocator produces is the tag followed by exactly
\* six digits, also after the all-nines suffix, and it is not stored yet: a
\* create with complete fields and a natural id that is not stored succeeds.
C32_FixedWidthFreshId ==
    [][(/\ last = None
        /\ last'.op = "create"
        /\ last'.entry = "http"
        /\ \A i \in 1..3 : last'.arg[2][i] # ""
        /\ last'.arg[1] # ""
        /\ \A b \in borrower : b.Ssn # last'.arg[1])
          => /\ last'.res = "ok"
             /\ Len(last'.out) = 6
             /\ \A b \in borrower : b.Card_id # last'.out]_vars

\* C33: every paid Fine records the final lateness of its loan: a Fine with
\* paid = true belongs to a CLOSED loan and its amount is
\* (dateClosed - dueDate) x 0.25, also when it was accrued while the loan was
\* OPEN and paid after a later check-in without a recompute in between.
C33_PaidFineIsFinal ==
    \A id \in DOMAIN fines :
        fines[id].Paid =>
            /\ book_loans[id].Date_in # -1
            /\ fines[id].Fine_amt = (book_loans[id].Date_in - book_loans[id].Due_date) * 25

\* C34: a Fine exists only for a loan that is or was overdue: its loan is
\* CLOSED with dateClosed > dueDate, or OPEN with dueDate earlier than the
\* latest today; so a loan checked in on or before its due date has no Fine
\* and cannot block a checkout.
C34_FineOnlyIfOverdue ==
    \A id \in DOMAIN fines :
        /\ id \in DOMAIN book_loans
        /\ IF book_loans[id].Date_in # -1
           THEN book_loans[id].Date_in > book_loans[id].Due_date
           ELSE book_loans[id].Due_date < clock

\* after a recompute: a loan checked in before its due date without a Fine,
\* an OPEN overdue loan with a Fine, and the day is past both due dates
C34_Witness ==
    /\ last.op = "recompute"
    /\ \E i, j \in DOMAIN book_loans :
          /\ book_loans[i].Date_in # -1
          /\ book_loans[i].Date_in <= book_loans[i].Due_date
          /\ book_loans[i].Due_date < clock
          /\ i \notin DOMAIN fines
          /\ book_loans[j].Date_in = -1
          /\ j \in DOMAIN fines

\* C35: a successful payAll leaves its borrower with no unpaid Fine at all,
\* also when a sweep that inserts a Fine for an OPEN overdue loan of the
\* borrower commits between the gate read and the update of the payAll.
C35_NoUnpaidAfterPayAll ==
    [][(last = None /\ last'.op = "payAll" /\ last'.res = "ok")
          => \A id \in DOMAIN fines' :
                book_loans'[id].Card_id = last'.arg => fines'[id].Paid]_vars

\* C36: every Loan has at most one Fine, and every Fine belongs to a Loan,
\* also when two sweeps run concurrently and both find the same overdue loan
\* without a Fine: the sweep that writes second is refused as a whole, the
\* Fine inserted first stays as it is and no other row changes.
C36_OneFinePerLoan ==
    [][/\ DOMAIN fines' \subseteq DOMAIN book_loans'
       /\ \A p \in {"p1", "p2"} :
             (/\ last = None
              /\ last'.op = "recompute"
              /\ req[p].op = "recompute"
              /\ req'[p] = [op |-> "idle"]
              /\ \E id \in DOMAIN req[p].plan :
                    req[p].plan[id].seen = "none" /\ id \in DOMAIN fines)
                => /\ last'.res = "StorageError"
                   /\ fines' = fines]_vars

\* a sweep has been refused and the Fine the other sweep inserted for the
\* same loan on that day is stored, unpaid
C36_Witness ==
    /\ last.op = "recompute"
    /\ last.res = "StorageError"
    /\ \E id \in DOMAIN fines :
          /\ ~fines[id].Paid
          /\ book_loans[id].Date_in = -1
          /\ fines[id].Fine_amt = (last.arg - book_loans[id].Due_date) * 25

\* the Loan rows are the same but for the closing date
SameButDateIn(before, after) ==
    /\ Len(after) = Len(before)
    /\ \A id \in DOMAIN before :
          [after[id] EXCEPT !.Date_in = before[id].Date_in] = before[id]

\* C37: each mutating operation writes only its own relation.  A check-in,
\* single or batch, changes nothing but closing dates of Loans; a recompute
\* and a payAll change nothing but Fines; a checkout changes no Fine and no
\* Borrower, appends one Loan when it succeeds and changes no Loan otherwise;
\* a create changes no Loan and no Fine, adds one Borrower when it succeeds
\* and none otherwise.
C37_OwnRelationOnly ==
    [][(last = None /\ last' # [op |-> "none"])
          => /\ last'.op \in {"checkin", "checkinBatch"}
                   => /\ fines' = fines
                      /\ borrower' = borrower
                      /\ SameButDateIn(book_loans, book_loans')
             /\ last'.op \in {"recompute", "payAll"}
                   => /\ book_loans' = book_loans
                      /\ borrower' = borrower
             /\ last'.op = "checkout"
                   => /\ fines' = fines
                      /\ borrower' = borrower
                      /\ Len(book_loans') = Len(book_loans) + (IF last'.res = "ok" THEN 1 ELSE 0)
                      /\ SubSeq(book_loans', 1, Len(book_loans)) = book_loans
             /\ last'.op = "create"
                   => /\ fines' = fines
                      /\ book_loans' = book_loans
                      /\ borrower \subseteq borrower'
                      /\ Cardinality(borrower' \ borrower) = (IF last'.res = "ok" THEN 1 ELSE 0)]_vars

\* a check-in has just closed an overdue loan whose Fine is still unpaid,
\* after a borrower has been created
C37_Witness ==
    /\ last.op = "checkin"
    /\ last.res = "ok"
    /\ book_loans[last.arg].Date_in > book_loans[last.arg].Due_date
    /\ last.arg \in DOMAIN fines
    /\ ~fines[last.arg].Paid
    /\ Cardinality(borrower) = 3

\* C38: recompute is idempotent on the Fines: the sweep of the same day run
\* again on the result of a recompute inserts no Fine and changes no amount
\* and no paid flag; and a recompute on a later day replaces the amount of the
\* unpaid Fine of an OPEN overdue loan by (today - dueDate) x 0.25, it does
\* not add to it.
C38_RecomputeIdempotent ==
    [][(last = None /\ last'.op = "recompute")
          => /\ SweepFines(clock)' = fines'
             /\ \A id \in DOMAIN fines :
                   (/\ book_loans[id].Date_in = -1
                    /\ book_loans[id].Due_date < clock
                    /\ ~fines[id].Paid)
                      => fines'[id].Fine_amt = (clock - book_loans[id].Due_date) * 25]_vars

\* a recompute on day 24 has replaced the 0.50 of day 16 on an OPEN loan due
\* on day 14 by 2.50, while the loan due on day 22 got its first Fine
C38_Witness ==
    /\ last.op = "recompute" /\ last.arg = 24
    /\ DOMAIN fines = {1, 2}
    /\ book_loans[1].Date_in = -1 /\ book_loans[1].Due_date = 14
    /\ fines[1] = [Fine_amt |-> 250, Paid |-> FALSE]
    /\ book_loans[2].Date_in = -1 /\ book_loans[2].Due_date = 22
    /\ fines[2] = [Fine_amt |-> 50, Paid |-> FALSE]

\* C39: referential integrity: every Loan references a Book of the catalog
\* and a stored Borrower, and every Fine references a stored Loan, also after
\* a checkout for an unknown borrower or an unknown book through either entry
\* point.
C39_ReferentialIntegrity ==
    /\ \A id \in DOMAIN book_loans :
          /\ book_loans[id].Isbn \in {"b1", "b2", "b3", "b4"}
          /\ \E b \in borrower : b.Card_id = book_loans[id].Card_id
    /\ DOMAIN fines \subseteq DOMAIN book_loans

\* the engine's checkout for a card id that is not stored has been refused by
\* the store, while Loans and a Fine exist
C39_Witness ==
    /\ last.op = "checkout"
    /\ last.entry = "cli"
    /\ last.res = "StorageError"
    /\ \A b \in borrower : b.Card_id # last.arg[2]
    /\ book_loans # <<>>
    /\ fines # <<>>

====
